---- MODULE Spec2Model ----
(***************************************************************************)
(* A state-machine model of twisted.internet.udp.Port: one datagram Port,  *)
(* the reactor that drives it (its reader set and its zero-delay delayed   *)
(* calls), the receive queue of the Port's socket and the Port's protocol. *)
(*                                                                         *)
(* The reactor is single threaded.  doRead is modelled one loop iteration  *)
(* per step (pc = "doRead" while the drain is in progress) because the     *)
(* protocol's datagramReceived callback may call back into the Port.       *)
(* While a drain is in progress only the drain itself and the arrival of   *)
(* datagrams at the socket (the OS) take steps.                            *)
(*                                                                         *)
(* fx describes the step that led to the current state: the operation, its *)
(* outcome, the OS calls it made and the protocol callbacks it invoked.    *)
(* A call made from the reactor thread runs in one step from pc = "idle"   *)
(* to pc = "done"; control then returns to the reactor's loop.             *)
(***************************************************************************)
EXTENDS Integers, Sequences, FiniteSets, TLC

(* ------------------------------ bounds -------------------------------- *)

\* maxThroughput of a fresh Port (the class attribute, scaled down).
MaxThroughput == 3
\* maxPacketSize given to the constructor (scaled down).
MaxPacketSize == 2
\* Datagrams the socket's receive buffer holds.
MaxQueue == 2
\* Successful startListening calls in one behaviour.
MaxStarts == 2
\* stopListening calls that return a Deferred in one behaviour.
MaxStops == 2
\* Consecutive EINTR results of one write.
MaxEintr == 1
\* Chunks of the sequence given to one writeSequence.
MaxChunks == 2

(* ----------------------------- constants ------------------------------ *)

None == "None"
\* An absent address (addr=None, _connectedAddr=None).
NoAddr == <<>>
AF_INET == "AF_INET"
AF_INET6 == "AF_INET6"

EAGAIN == "EAGAIN"
EWOULDBLOCK == "EWOULDBLOCK"
EINTR == "EINTR"
EMSGSIZE == "EMSGSIZE"
ECONNREFUSED == "ECONNREFUSED"
ECONNRESET == "ECONNRESET"
ENETRESET == "ENETRESET"
ETIMEDOUT == "ETIMEDOUT"
EINPROGRESS == "EINPROGRESS"
\* Errnos in none of the module's tables.
EBADF == "EBADF"
\* The errno of a socket option the platform does not support.
ENOPROTOOPT == "ENOPROTOOPT"
EDESTADDRREQ == "EDESTADDRREQ"
\* The OS call succeeded.
OK == "OK"

\* twisted.python.runtime.platformType, as far as the module looks at it.
PlatformTypes == {"posix", "win32"}

\* Host strings callers pass: an IPv4 literal, an IPv6 literal, the broadcast
\* sentinel and a hostname.
Hosts == {"1.2.3.4", "::1", "<broadcast>", "example.com"}
\* Interfaces a Port is constructed with: all IPv4 addresses, an IPv6
\* literal, and a string that is no address.
Interfaces == {"", "::1", "example.com"}
\* The port number of every peer address.
PeerPort == "p7"
\* The port number a Port is constructed with.
ListenPort == "p0"

isIPAddress(addr) == addr \in {"1.2.3.4", "127.0.0.1"}
isIPv6Address(addr) == addr \in {"::1"}

Range(s) == {s[i] : i \in DOMAIN s}
Min(a, b) == IF a < b THEN a ELSE b

VARIABLES
    platformType,       \* twisted.python.runtime.platformType
    SO_REUSEPORT,       \* hasattr(socket, "SO_REUSEPORT")
    listenMultiple,     \* MulticastPort.listenMultiple: "False" or "True";
                        \* None for a Port, which has no such attribute
    interface,          \* Port.interface
    addressFamily,      \* Port.addressFamily
    maxPacketSize,      \* Port.maxPacketSize
    _preexistingSocket, \* Port._preexistingSocket: None or "adopted"
    connected,          \* FileDescriptor.connected: 1 while bound
    socket,             \* Port.socket: None (no attribute) or "open"
    osPeer,             \* the peer the OS has connected the socket to
    _realPortNumber,    \* Port._realPortNumber: None or "assigned"
    maxThroughput,      \* Port.maxThroughput
    _connectedAddr,     \* Port._connectedAddr: NoAddr or <<host, port>>
    d,                  \* Port.d: 0 (no attribute) or the Deferred's number
    readers,            \* the Port is in the reactor's reader set
    delayedCalls,       \* pending reactor.callLater(0, connectionLost) calls
    rxQueue,            \* lengths of the datagrams waiting in the socket
    pc,                 \* "idle": the reactor waits; "doRead": a drain is in
                        \* progress; "done": a call has just returned or
                        \* raised; "raised": the constructor has raised
    read,               \* doRead's local: bytes received in this invocation
    starts,             \* successful startListening calls so far
    stops,              \* Deferreds returned by stopListening so far
    teardowns,          \* connectionLost runs so far
    doStops,            \* protocol.doStop() calls so far
    resolved,           \* numbers of the Deferreds that have fired
    stopRequested,      \* stopListening was called since the last start
    fx                  \* the step just taken

portVars == <<platformType, SO_REUSEPORT, listenMultiple, interface, addressFamily, maxPacketSize, _preexistingSocket,
              connected, socket, osPeer,
              _realPortNumber, maxThroughput, _connectedAddr, d>>
reactorVars == <<readers, delayedCalls>>
histVars == <<starts, stops, teardowns, doStops, resolved, stopRequested>>
vars == <<portVars, reactorVars, rxQueue, pc, read, histVars, fx>>

\* The step record: every field has a default.  payloads: the datagrams
\* handed to the OS; log: what the step wrote with log.err; received: the
\* lengths of the datagrams the OS returned; args: the lengths of the
\* datagrams given to datagramReceived; steps: the statements of the call
\* in the order they ran; opts: the results of the setsockopt calls.
Fx(op, result) ==
    [op |-> op, result |-> result, reason |-> "", addr |-> NoAddr,
     handle |-> 0,
     os |-> <<>>, oscalls |-> <<>>, dests |-> <<>>, callbacks |-> <<>>,
     reentrant |-> None, payloads |-> <<>>, seq |-> <<>>, log |-> <<>>,
     received |-> <<>>, args |-> <<>>, steps |-> <<>>, opts |-> <<>>]

\* The step was no call into the Port.
NoCall == Fx("none", "")

(* --------------------------- platform switch -------------------------- *)

\* The errno a name stands for: on win32 the module binds EAGAIN to
\* WSAEWOULDBLOCK (and EMSGSIZE, ECONNREFUSED, EINTR to their WSA codes).
Errno(name) ==
    IF platformType = "win32" /\ name = EAGAIN THEN EWOULDBLOCK ELSE name

\* One table of ignorable errnos for both platforms, EMSGSIZE included.
_sockErrReadIgnore_everywhere == {Errno(EAGAIN), EINTR, EWOULDBLOCK, EMSGSIZE}

_sockErrReadIgnore ==
    IF platformType = "win32"
    THEN {EINTR, EWOULDBLOCK, EMSGSIZE, EINPROGRESS}
    ELSE {EAGAIN, EINTR, EWOULDBLOCK}

_sockErrReadRefuse ==
    IF platformType = "win32"
    THEN {ECONNREFUSED, ECONNRESET, ENETRESET, ETIMEDOUT}
    ELSE {ECONNREFUSED}

(* ---------------------------- construction ---------------------------- *)

\* _setAddressFamily keeping the class attribute whatever the interface.
_setAddressFamily_classAttribute(iface) == AF_INET

_setAddressFamily(iface) ==
    IF isIPv6Address(iface) THEN AF_INET6
    ELSE IF isIPAddress(iface) THEN AF_INET
    ELSE IF iface # "" THEN "InvalidAddressError"
    ELSE AF_INET

\* cls(...), or cls._fromListeningDescriptor(...) on a socket bound to
\* 127.0.0.1, on one of the given platforms.  multiples: the values of
\* listenMultiple, {None} for the class Port; _fromListeningDescriptor
\* passes no listenMultiple, so a MulticastPort it makes has the default.
\* reusePorts: whether the socket module defines SO_REUSEPORT.  When
\* _setAddressFamily raises there is no Port: addressFamily is the class
\* attribute and nothing can be called.
ConstructClass(platforms, multiples, reusePorts) ==
    /\ platformType \in platforms
    /\ SO_REUSEPORT \in reusePorts
    /\ listenMultiple \in multiples
    /\ \/ /\ interface \in Interfaces
          /\ _preexistingSocket = None
       \/ /\ interface = "127.0.0.1"
          /\ _preexistingSocket = "adopted"
          /\ listenMultiple \in {None, "False"}
    /\ IF _setAddressFamily(interface) = "InvalidAddressError"
       THEN /\ addressFamily = AF_INET
            /\ pc = "raised"
            /\ fx = [Fx("__init__", "InvalidAddressError")
                        EXCEPT !.reason = "not an IPv4 or IPv6 address."]
       ELSE /\ addressFamily = _setAddressFamily(interface)
            /\ pc = "idle"
            /\ fx = Fx("__init__", "returned")
    /\ maxPacketSize = MaxPacketSize
    /\ connected = 0
    /\ socket = None
    /\ osPeer = NoAddr
    /\ _realPortNumber = None
    /\ maxThroughput = MaxThroughput
    /\ _connectedAddr = NoAddr
    /\ d = 0
    /\ readers = FALSE
    /\ delayedCalls = 0
    /\ rxQueue = <<>>
    /\ read = 0
    /\ starts = 0
    /\ stops = 0
    /\ teardowns = 0
    /\ doStops = 0
    /\ resolved = {}
    /\ stopRequested = FALSE

\* Port(...), or Port._fromListeningDescriptor(...), on one of the given
\* platforms.  Port.createInternetSocket sets no reuse option, so
\* SO_REUSEPORT is not looked at.
Construct(platforms) == ConstructClass(platforms, {None}, {TRUE})

\* A Port on a POSIX platform.
Init == Construct({"posix"})

(* --------------------------- startListening --------------------------- *)

\* CannotListenError without the OSError that caused it.
CannotListenError_noCause(iface, port, le) ==
    [Fx("startListening", "CannotListenError") EXCEPT !.addr = <<iface, port>>]

\* error.CannotListenError(self.interface, self.port, le)
CannotListenError(iface, port, le) ==
    [Fx("startListening", "CannotListenError")
        EXCEPT !.addr = <<iface, port>>, !.os = <<le>>]

\* skt.getsockname()[1] without a port number.
getsockname_unknown == None

\* skt.getsockname()[1] of a bound socket: the port the OS assigned.
getsockname == "assigned"

\* The statements of a successful startListening with startReading moved
\* before makeConnection.
startListeningSteps_readingFirst ==
    <<"_realPortNumber", "connected", "socket", "startReading",
      "makeConnection">>

\* The statements of a successful startListening: _bindSocket's three
\* assignments, then _connectToProtocol's two calls.
startListeningSteps ==
    <<"_realPortNumber", "connected", "socket", "makeConnection",
      "startReading">>

\* The except clause around setsockopt(SO_REUSEPORT) re-raising every
\* OSError.
reusePortError_raisesAll(no) == "raise"

\* The except clause around setsockopt(SO_REUSEPORT): what becomes of
\* errno no.
reusePortError(no) == IF no = ENOPROTOOPT THEN "pass" ELSE "raise"

\* The results a socket(), setsockopt() or bind() call can have.
SocketOutcomes == {OK, EBADF}
SetsockoptOutcomes == {OK, ENOPROTOOPT, EBADF}

\* The results of the calls createInternetSocket and _bindSocket make: a
\* call that is not made has the one result OK.
ReuseAddrOutcomes ==
    IF listenMultiple = "True" THEN SetsockoptOutcomes ELSE {OK}
ReusePortOutcomes ==
    IF listenMultiple = "True" /\ SO_REUSEPORT THEN SetsockoptOutcomes
    ELSE {OK}
BindOutcomes(sockNo) == IF sockNo = OK THEN SocketOutcomes ELSE {OK}

\* The socket was made: the OS calls and the setsockopt results so far.
Skt(oscalls, opts) ==
    [result |-> "skt", le |-> OK, oscalls |-> oscalls, opts |-> opts]

\* An OSError with errno le leaves createInternetSocket.
SktError(le, oscalls, opts) ==
    [result |-> "OSError", le |-> le, oscalls |-> oscalls, opts |-> opts]

\* createInternetSocket of Port (listenMultiple is None) and of
\* MulticastPort.  sockNo, addrNo, portNo: the results of socket() and of
\* the two setsockopt calls, for the calls that are made.
createInternetSocket(sockNo, addrNo, portNo) ==
    IF sockNo # OK
    THEN SktError(sockNo, <<"socket">>, <<>>)
    ELSE IF listenMultiple # "True"
    THEN Skt(<<"socket">>, <<>>)
    ELSE IF addrNo # OK
    THEN SktError(addrNo, <<"socket", "SO_REUSEADDR">>, <<addrNo>>)
    ELSE IF ~SO_REUSEPORT
    THEN Skt(<<"socket", "SO_REUSEADDR">>, <<OK>>)
    ELSE IF portNo = OK \/ reusePortError(portNo) = "pass"
    THEN Skt(<<"socket", "SO_REUSEADDR", "SO_REUSEPORT">>, <<OK, portNo>>)
    ELSE SktError(portNo, <<"socket", "SO_REUSEADDR", "SO_REUSEPORT">>,
                  <<OK, portNo>>)

\* maxThroughput set again to the class attribute by startListening.
maxThroughput_restored == MaxThroughput

\* maxThroughput after a successful startListening: no statement of
\* startListening, _bindSocket or _connectToProtocol assigns it.
maxThroughput_startListening == maxThroughput

\* _bindSocket then _connectToProtocol.  The try block of _bindSocket calls
\* createInternetSocket and bind; an OSError of either becomes
\* CannotListenError, and a socket that was created and could not be bound
\* is dropped as it is.  An adopted socket is taken as it is.  Called on a
\* Port that is not bound.
startListening ==
    /\ pc = "idle"
    /\ connected = 0
    /\ starts < MaxStarts
    /\ \E sockNo \in SocketOutcomes, addrNo \in ReuseAddrOutcomes,
          portNo \in ReusePortOutcomes :
      \E bindNo \in BindOutcomes(sockNo) :
        LET skt == createInternetSocket(sockNo, addrNo, portNo)
            created == _preexistingSocket = None
            le == IF skt.result = "OSError" THEN skt.le ELSE bindNo
            oscalls == IF ~created THEN <<>>
                       ELSE IF skt.result = "OSError" THEN skt.oscalls
                       ELSE skt.oscalls \o <<"bind">>
            opts == IF created THEN skt.opts ELSE <<>>
        IN
        IF created /\ le # OK
        THEN /\ fx' = [CannotListenError(interface, ListenPort, le)
                          EXCEPT !.oscalls = oscalls, !.opts = opts]
             /\ UNCHANGED <<portVars, reactorVars, rxQueue, read, histVars>>
        ELSE /\ _preexistingSocket' = None
             /\ _realPortNumber' = getsockname
             /\ connected' = 1
             /\ socket' = "open"
             /\ osPeer' = NoAddr
             /\ maxThroughput' = maxThroughput_startListening
             /\ rxQueue' = <<>>
             /\ readers' = TRUE
             /\ starts' = starts + 1
             /\ stopRequested' = FALSE
             /\ fx' = [Fx("startListening", "returned")
                          EXCEPT !.oscalls = oscalls,
                                 !.opts = opts,
                                 !.callbacks = <<"makeConnection">>,
                                 !.steps = startListeningSteps]
             /\ UNCHANGED <<platformType, SO_REUSEPORT, listenMultiple,
                            interface, addressFamily, maxPacketSize,
                            _connectedAddr, d, delayedCalls,
                            read, stops, teardowns, doStops, resolved>>
    /\ pc' = "done"

(* ---------------------------- stopListening --------------------------- *)

\* _loseConnection stopping the protocol itself instead of leaving it to the
\* delayed call.
_loseConnection_sync ==
    /\ readers' = FALSE
    /\ delayedCalls' = IF connected = 1 THEN delayedCalls + 1 ELSE delayedCalls
    /\ doStops' = IF connected = 1 THEN doStops + 1 ELSE doStops
    /\ UNCHANGED <<teardowns, resolved, socket, osPeer, connected,
                   _realPortNumber, maxThroughput>>

\* _loseConnection without its test of self.connected.
_loseConnection_always ==
    /\ readers' = FALSE
    /\ delayedCalls' = delayedCalls + 1
    /\ UNCHANGED <<teardowns, doStops, resolved, socket, osPeer, connected,
                   _realPortNumber, maxThroughput>>

\* _loseConnection: stopReading, and callLater(0, connectionLost) when bound.
\* Nothing of the teardown happens here.
_loseConnection ==
    /\ readers' = FALSE
    /\ delayedCalls' = IF connected = 1 THEN delayedCalls + 1 ELSE delayedCalls
    /\ UNCHANGED <<teardowns, doStops, resolved, socket, osPeer, connected,
                   _realPortNumber, maxThroughput>>

\* The body of stopListening, whoever calls it.
stopListeningBody ==
    /\ IF connected = 1
       THEN /\ d' = stops + 1
            /\ stops' = stops + 1
            /\ stopRequested' = TRUE
       ELSE UNCHANGED <<d, stops, stopRequested>>
    /\ _loseConnection
    /\ UNCHANGED <<platformType, SO_REUSEPORT, listenMultiple,
                   interface, addressFamily, maxPacketSize,
                   _preexistingSocket, _connectedAddr, starts>>

\* stopListening called by the application from the reactor thread.
stopListening ==
    /\ pc = "idle"
    /\ connected = 1 => stops < MaxStops
    /\ stopListeningBody
    /\ fx' = [Fx("stopListening", "returned")
                 EXCEPT !.handle = IF connected = 1 THEN d' ELSE 0]
    /\ pc' = "done"
    /\ UNCHANGED <<rxQueue, read>>

(* ---------------------------- connectionLost -------------------------- *)

\* The statements of connectionLost with the Deferred fired first.
connectionLostSteps_callbackFirst(stopRaises) ==
    <<"callback", "del d", "_realPortNumber", "maxThroughput",
      "BasePort.connectionLost", "doStop", "close", "del socket">>

\* The statements of connectionLost that run, in their order: all of them,
\* or those up to the doStop that raises or up to the self.socket that is
\* not there.
connectionLostSteps(stopRaises) ==
    <<"_realPortNumber", "maxThroughput", "BasePort.connectionLost",
      "doStop">>
    \o (IF stopRaises \/ socket = None THEN <<>>
        ELSE <<"close", "del socket">>
             \o (IF d # 0 THEN <<"callback", "del d">> ELSE <<>>))

\* The reactor runs one delayed call: connectionLost.  stopRaises: the
\* protocol's doStop raises.  base.BasePort.connectionLost clears connected
\* and removes the Port from the readers.
connectionLost ==
    /\ pc = "idle"
    /\ delayedCalls > 0
    /\ delayedCalls' = delayedCalls - 1
    /\ _realPortNumber' = None
    /\ maxThroughput' = -1
    /\ connected' = 0
    /\ readers' = FALSE
    /\ teardowns' = teardowns + 1
    /\ doStops' = doStops + 1
    /\ \E stopRaises \in BOOLEAN :
        IF stopRaises
        THEN /\ fx' = [Fx("connectionLost", "raised")
                          EXCEPT !.callbacks = <<"doStop">>,
                                 !.steps = connectionLostSteps(stopRaises)]
             /\ UNCHANGED <<socket, osPeer, rxQueue, d, resolved>>
        ELSE IF socket = None
        THEN /\ fx' = [Fx("connectionLost", "AttributeError")
                          EXCEPT !.callbacks = <<"doStop">>,
                                 !.steps = connectionLostSteps(stopRaises)]
             /\ UNCHANGED <<socket, osPeer, rxQueue, d, resolved>>
        ELSE /\ socket' = None
             /\ osPeer' = NoAddr
             /\ rxQueue' = <<>>
             /\ resolved' = IF d # 0 THEN resolved \cup {d} ELSE resolved
             /\ d' = 0
             /\ fx' = [Fx("connectionLost", "returned")
                          EXCEPT !.callbacks = <<"doStop">>,
                                 !.oscalls = <<"close">>,
                                 !.handle = d,
                                 !.steps = connectionLostSteps(stopRaises)]
    /\ pc' = "done"
    /\ UNCHANGED <<platformType, SO_REUSEPORT, listenMultiple,
                   interface, addressFamily, maxPacketSize,
                   _preexistingSocket, _connectedAddr, read, starts, stops,
                   stopRequested>>

(* -------------------------------- doRead ------------------------------ *)

\* The loop condition with <= for <.
DrainMore_inclusive == read <= maxThroughput

\* The loop condition of doRead.
DrainMore == read < maxThroughput

\* What recvfrom can do now: deliver the first waiting datagram, report that
\* nothing waits, or fail with another errno.
RecvOutcomes ==
    (IF rxQueue # <<>> THEN {OK} ELSE {Errno(EAGAIN), EWOULDBLOCK})
        \cup {EINTR, EMSGSIZE, EINPROGRESS, ECONNREFUSED, ECONNRESET,
              ENETRESET, ETIMEDOUT, EBADF}

\* readError with the errnos outside the tables swallowed.
readError_swallowsAll(no) ==
    IF no \in _sockErrReadIgnore THEN "ignored"
    ELSE IF no \in _sockErrReadRefuse THEN "refused"
    ELSE "ignored"

\* The except clause re-raising the errors of the ignore table.
readError_raisesIgnorable(no) ==
    IF no \in _sockErrReadIgnore THEN "OSError"
    ELSE IF no \in _sockErrReadRefuse THEN "refused"
    ELSE "OSError"

\* The except clause of doRead: what becomes of errno no.
readError(no) ==
    IF no \in _sockErrReadIgnore THEN "ignored"
    ELSE IF no \in _sockErrReadRefuse THEN "refused"
    ELSE "OSError"

\* connectionRefused invoked whether or not a peer is configured.
refusedCallbacks_always == <<"connectionRefused">>

\* The protocol callbacks of doRead for a refused receive.
refusedCallbacks ==
    IF _connectedAddr # NoAddr THEN <<"connectionRefused">> ELSE <<>>

\* dispatch passing over the empty datagrams.
dispatch_skipsEmpty(data) == IF data = 0 THEN <<>> ELSE <<data>>

\* The datagrams doRead gives to datagramReceived for one received
\* datagram of length data.
dispatch(data) == <<data>>

\* Where doRead is after datagramReceived, with the failure of the callback
\* let through.
afterDatagramReceived_propagates(cb) ==
    IF cb = "raises" THEN "done" ELSE "doRead"

\* Where doRead is after datagramReceived: `except BaseException` takes
\* whatever the callback raises, and the loop goes on.
afterDatagramReceived(cb) == "doRead"

\* The reactor finds the socket readable and calls doRead: read = 0.
doRead ==
    /\ pc = "idle"
    /\ readers
    /\ pc' = "doRead"
    /\ read' = 0
    /\ fx' = Fx("doRead", "called")
    /\ UNCHANGED <<portVars, reactorVars, rxQueue, histVars>>

\* One evaluation of the loop condition and, when it holds, one iteration.
\* cb is what the protocol's datagramReceived does with the datagram.
doReadLoop ==
    /\ pc = "doRead"
    /\ IF ~DrainMore
       THEN /\ pc' = "done"
            /\ fx' = Fx("doRead", "budget")
            /\ UNCHANGED <<portVars, reactorVars, rxQueue, read, histVars>>
       ELSE \E no \in RecvOutcomes :
            IF no = OK
            THEN LET data == Min(Head(rxQueue), maxPacketSize)
                     call == [Fx("doRead", "dispatched")
                                 EXCEPT !.oscalls = <<"recvfrom">>,
                                        !.received = <<data>>,
                                        !.args = dispatch(data),
                                        !.callbacks =
                                            [i \in DOMAIN dispatch(data) |->
                                                "datagramReceived"]]
                 IN
                 /\ rxQueue' = Tail(rxQueue)
                 /\ read' = read + data
                 /\ \E cb \in {"returns", "raises", "stopListening"} :
                     /\ pc' = afterDatagramReceived(cb)
                     /\ IF cb = "stopListening"
                        THEN /\ connected = 1 => stops < MaxStops
                             /\ stopListeningBody
                             /\ fx' = [call EXCEPT
                                          !.reentrant = "stopListening",
                                          !.handle = d']
                        ELSE /\ fx' = [call EXCEPT
                                          !.reentrant = cb,
                                          !.log = IF cb = "raises"
                                                  THEN <<"err">> ELSE <<>>]
                             /\ UNCHANGED <<portVars, reactorVars, histVars>>
            ELSE /\ pc' = "done"
                 /\ fx' = [Fx("doRead", readError(no))
                             EXCEPT !.os = <<no>>,
                                    !.oscalls = <<"recvfrom">>,
                                    !.callbacks =
                                        IF readError(no) = "refused"
                                        THEN refusedCallbacks ELSE <<>>]
                 /\ UNCHANGED <<portVars, reactorVars, rxQueue, read, histVars>>

(* -------------------------------- write ------------------------------- *)

\* writeValidation without the check of an IPv6 port's destination.
writeValidation_noV6PortCheck(host) ==
    IF ~isIPAddress(host) /\ ~isIPv6Address(host) /\ host # "<broadcast>"
    THEN "write() only accepts IP addresses, not hostnames"
    ELSE IF isIPv6Address(host) /\ addressFamily = AF_INET
    THEN "IPv4 port write() called with IPv6 address"
    ELSE "ok"

\* writeValidation without the hostname check.
writeValidation_noHostnameCheck(host) ==
    IF (isIPAddress(host) \/ host = "<broadcast>")
       /\ addressFamily = AF_INET6
    THEN "IPv6 port write() called with IPv4 or broadcast address"
    ELSE IF isIPv6Address(host) /\ addressFamily = AF_INET
    THEN "IPv4 port write() called with IPv6 address"
    ELSE "ok"

\* The destination checks of an unconnected write, in the code's order: the
\* error's message, or "ok".
writeValidation(host) ==
    IF ~isIPAddress(host) /\ ~isIPv6Address(host) /\ host # "<broadcast>"
    THEN "write() only accepts IP addresses, not hostnames"
    ELSE IF (isIPAddress(host) \/ host = "<broadcast>")
            /\ addressFamily = AF_INET6
    THEN "IPv6 port write() called with IPv4 or broadcast address"
    ELSE IF isIPv6Address(host) /\ addressFamily = AF_INET
    THEN "IPv4 port write() called with IPv6 address"
    ELSE "ok"

\* What a write returns or raises, with the OS results it consumed, the OS
\* calls it made, their destinations and payloads, and the protocol
\* callbacks it invoked.
Wr(result, reason) ==
    [result |-> result, reason |-> reason, os |-> <<>>, oscalls |-> <<>>,
     dests |-> <<>>, payloads |-> <<>>, callbacks |-> <<>>]

\* r, after one more OS call `call` of `datagram` to `dest` that the OS
\* answered with `no`.
After(call, dest, datagram, no, r) ==
    [r EXCEPT !.os = <<no>> \o @, !.oscalls = <<call>> \o @,
              !.dests = <<dest>> \o @, !.payloads = <<datagram>> \o @]

\* sendError with ECONNREFUSED let through to the caller.
sendError_refusedRaises(no, refused) ==
    IF no = EMSGSIZE THEN Wr("MessageLengthError", "message too long")
    ELSE Wr("OSError", "")

\* sendError with EMSGSIZE let through to the caller.
sendError_lengthRaises(no, refused) ==
    IF no = ECONNREFUSED
    THEN [Wr("returned", "") EXCEPT !.callbacks = refused]
    ELSE Wr("OSError", "")

\* The except clause of write for an errno other than EINTR.  refused: the
\* protocol callbacks of the branch's ECONNREFUSED case.
sendError(no, refused) ==
    IF no = EMSGSIZE THEN Wr("MessageLengthError", "message too long")
    ELSE IF no = ECONNREFUSED
    THEN [Wr("returned", "") EXCEPT !.callbacks = refused]
    ELSE Wr("OSError", "")

\* The connected branch's assertion, letting every destination pass.
assertPeer_any(addr) == TRUE

\* assert addr in (None, self._connectedAddr)
assertPeer(addr) == addr \in {NoAddr, _connectedAddr}

\* The retry sending an empty datagram.
retried_empty(datagram) == <<>>

\* The datagram the except clause gives to the write that retries.
retried(datagram) == datagram

\* write(datagram, addr).  outcomes: the results of the successive OS sends.
RECURSIVE write(_, _, _)
write(datagram, addr, outcomes) ==
    IF _connectedAddr # NoAddr
    THEN IF ~assertPeer(addr)
         THEN Wr("AssertionError", "")
         ELSE IF socket = None
         THEN Wr("AttributeError", "")
         ELSE LET no == Head(outcomes) IN
              After("send", _connectedAddr, datagram, no,
                    IF no = OK THEN Wr("sent", "")
                    ELSE IF no = EINTR
                    THEN write(retried(datagram), NoAddr, Tail(outcomes))
                    ELSE sendError(no, <<"connectionRefused">>))
    ELSE IF addr = NoAddr
         THEN Wr("AssertionError", "")
         ELSE IF writeValidation(addr[1]) # "ok"
         THEN Wr("InvalidAddressError", writeValidation(addr[1]))
         ELSE IF socket = None
         THEN Wr("AttributeError", "")
         ELSE LET no == Head(outcomes) IN
              After("sendto", addr, datagram, no,
                    IF no = OK THEN Wr("sent", "")
                    ELSE IF no = EINTR
                    THEN write(retried(datagram), addr, Tail(outcomes))
                    ELSE sendError(no, <<>>))

\* The destinations callers pass to write.
WriteAddrs == {NoAddr} \cup {<<h, PeerPort>> : h \in Hosts}

\* The datagrams callers pass to write, as sequences of bytes.
Datagrams == {<<>>, <<"a">>, <<"a", "b">>}

\* What the OS can answer to the successive sends of one write: at most
\* MaxEintr interruptions, then a result.  send() on a socket the OS has not
\* connected fails with EDESTADDRREQ.
SendOutcomes ==
    LET last == IF _connectedAddr # NoAddr /\ osPeer = NoAddr
                THEN {EDESTADDRREQ}
                ELSE {OK, EMSGSIZE, ECONNREFUSED, EBADF}
    IN {[i \in 1..k |-> EINTR] \o <<f>> : k \in 0..MaxEintr, f \in last}

\* write taking the Port out of the reactor's readers.
writeAssigns_stopsReading ==
    /\ readers' = FALSE
    /\ UNCHANGED <<portVars, delayedCalls, rxQueue, read, histVars>>

\* What write assigns: no attribute of the Port, nothing of the reactor.
writeAssigns ==
    UNCHANGED <<portVars, reactorVars, rxQueue, read, histVars>>

\* The application calls write(datagram, addr) from the reactor thread.
callWrite ==
    /\ pc = "idle"
    /\ \E datagram \in Datagrams, addr \in WriteAddrs,
          outcomes \in SendOutcomes :
        LET r == write(datagram, addr, outcomes) IN
        fx' = [Fx("write", r.result)
                  EXCEPT !.addr = addr, !.reason = r.reason, !.os = r.os,
                         !.oscalls = r.oscalls, !.dests = r.dests,
                         !.payloads = r.payloads, !.seq = <<datagram>>,
                         !.callbacks = r.callbacks]
    /\ pc' = "done"
    /\ writeAssigns

(* ---------------------------- writeSequence --------------------------- *)

\* b"".join(seq)
RECURSIVE join(_)
join(seq) == IF seq = <<>> THEN <<>> ELSE Head(seq) \o join(Tail(seq))

\* writeSequence writing every chunk as a datagram of its own.
RECURSIVE writeSequence_perChunk(_, _, _)
writeSequence_perChunk(seq, addr, outcomes) ==
    IF seq = <<>> THEN Wr("returned", "")
    ELSE LET r == write(Head(seq), addr, outcomes)
             rest == writeSequence_perChunk(Tail(seq), addr, outcomes)
         IN IF r.result \notin {"sent", "returned"} THEN r
            ELSE [rest EXCEPT !.os = r.os \o @, !.oscalls = r.oscalls \o @,
                              !.dests = r.dests \o @,
                              !.payloads = r.payloads \o @,
                              !.callbacks = r.callbacks \o @]

\* writeSequence(seq, addr): one write of the joined chunks; what write
\* returns is dropped, what it raises is raised.
writeSequence(seq, addr, outcomes) ==
    LET r == write(join(seq), addr, outcomes) IN
    [r EXCEPT !.result = IF @ \in {"sent", "returned"} THEN "returned" ELSE @]

\* The chunks of the sequences callers pass to writeSequence.
Chunks == {<<>>, <<"a">>, <<"b">>}

\* The sequences callers pass to writeSequence.
ChunkSeqs == UNION {[1..n -> Chunks] : n \in 0..MaxChunks}

\* The application calls writeSequence(seq, addr) from the reactor thread.
callWriteSequence ==
    /\ pc = "idle"
    /\ \E seq \in ChunkSeqs, addr \in WriteAddrs, outcomes \in SendOutcomes :
        LET r == writeSequence(seq, addr, outcomes) IN
        fx' = [Fx("writeSequence", r.result)
                  EXCEPT !.addr = addr, !.reason = r.reason, !.os = r.os,
                         !.oscalls = r.oscalls, !.dests = r.dests,
                         !.payloads = r.payloads, !.seq = seq,
                         !.callbacks = r.callbacks]
    /\ pc' = "done"
    /\ UNCHANGED <<portVars, reactorVars, rxQueue, read, histVars>>

(* ------------------------------- connect ------------------------------ *)

\* connect without its first test.
AlreadyConnected_never == FALSE

\* connect's first test.
AlreadyConnected == _connectedAddr # NoAddr

\* The socket's family takes the host.
FamilyOf(host) == IF isIPv6Address(host) THEN AF_INET6 ELSE AF_INET

\* connect taking every host string.
connectValidation_any(host) == TRUE

\* connect's test of the host: an IPv4 or an IPv6 literal.
connectValidation(host) == isIPAddress(host) \/ isIPv6Address(host)

\* The peer taken back when the rest of connect fails.
peerAfterConnect_undone(addr, result) ==
    IF result = "returned" THEN addr ELSE NoAddr

\* _connectedAddr when connect ends, with result the way the call of
\* self.socket.connect ended: the assignment is made before the call and
\* nothing handles what the call raises.
peerAfterConnect(addr, result) == addr

\* connect(host, port).  no: the result of the OS-level connect, which
\* fails for a host of the other family.
connect ==
    /\ pc = "idle"
    /\ \E host \in Hosts, no \in {OK, EBADF} :
        IF AlreadyConnected
        THEN /\ fx' = [Fx("connect", "RuntimeError")
                          EXCEPT !.addr = <<host, PeerPort>>,
                                 !.reason = "already connected, reconnecting is not currently supported"]
             /\ UNCHANGED <<_connectedAddr, osPeer>>
        ELSE IF ~connectValidation(host)
        THEN /\ fx' = [Fx("connect", "InvalidAddressError")
                          EXCEPT !.addr = <<host, PeerPort>>,
                                 !.reason = "not an IPv4 or IPv6 address."]
             /\ UNCHANGED <<_connectedAddr, osPeer>>
        ELSE LET addr == <<host, PeerPort>>
                 result == IF socket = None THEN "AttributeError"
                           ELSE IF no = OK /\ FamilyOf(host) = addressFamily
                           THEN "returned"
                           ELSE "OSError"
             IN
             /\ _connectedAddr' = peerAfterConnect(addr, result)
             /\ IF result = "AttributeError"
                THEN /\ fx' = [Fx("connect", "AttributeError")
                                  EXCEPT !.addr = addr]
                     /\ UNCHANGED osPeer
                ELSE IF result = "returned"
                THEN /\ fx' = [Fx("connect", "returned")
                                  EXCEPT !.addr = addr,
                                         !.os = <<OK>>,
                                         !.oscalls = <<"connect">>,
                                         !.dests = <<addr>>]
                     /\ osPeer' = addr
                ELSE /\ fx' = [Fx("connect", "OSError")
                                  EXCEPT !.addr = addr,
                                         !.os = <<EBADF>>,
                                         !.oscalls = <<"connect">>,
                                         !.dests = <<addr>>]
                     /\ UNCHANGED osPeer
    /\ pc' = "done"
    /\ UNCHANGED <<platformType, SO_REUSEPORT, listenMultiple,
                   interface, addressFamily, maxPacketSize,
                   _preexistingSocket, connected, socket, _realPortNumber,
                   maxThroughput, d, reactorVars, rxQueue, read, histVars>>

(* ------------------------------ environment -------------------------- *)

\* The lengths of the datagrams peers send: empty, short, and longer than
\* the receive buffer.
DatagramLengths == {0, 1, MaxPacketSize + 1}

\* A datagram of length n reaches the socket, while the reactor waits or
\* while a drain is in progress.
Arrive ==
    /\ pc \in {"idle", "doRead"}
    /\ socket = "open"
    /\ Len(rxQueue) < MaxQueue
    /\ \E n \in DatagramLengths :
        rxQueue' = Append(rxQueue, n)
    /\ fx' = NoCall
    /\ UNCHANGED <<portVars, reactorVars, pc, read, histVars>>

\* The call has returned or raised: control is back in the reactor's loop.
returnToReactor ==
    /\ pc = "done"
    /\ pc' = "idle"
    /\ fx' = NoCall
    /\ UNCHANGED <<portVars, reactorVars, rxQueue, read, histVars>>

\* The Port's lifecycle, connect and the read path.  write is left to
\* WriteSpec: it changes no variable but fx, so it adds no state of the Port,
\* the reactor or the socket to the ones reached here.
Next ==
    \/ startListening
    \/ stopListening
    \/ connectionLost
    \/ connect
    \/ doRead
    \/ doReadLoop
    \/ Arrive
    \/ returnToReactor

Spec == Init /\ [][Next]_vars

\* The Port's lifecycle, connect and the write path.  A write reads
\* addressFamily, _connectedAddr, socket and osPeer, which the read path
\* changes only through a stopListening made from datagramReceived; that
\* call is stopListening here.
WriteNext ==
    \/ startListening
    \/ stopListening
    \/ connectionLost
    \/ connect
    \/ callWrite
    \/ callWriteSequence
    \/ returnToReactor

WriteSpec == Init /\ [][WriteNext]_vars

\* The read path on either platform.
PlatformInit == Construct(PlatformTypes)

PlatformSpec == PlatformInit /\ [][Next]_vars

\* Every operation of the Port, on a socket that no datagram reaches: the
\* drains of doRead end on an errno.  The write path and the receive queue
\* do not read or change each other's variables.
OpsNext ==
    \/ startListening
    \/ stopListening
    \/ connectionLost
    \/ connect
    \/ doRead
    \/ doReadLoop
    \/ callWrite
    \/ callWriteSequence
    \/ returnToReactor

OpsSpec == Init /\ [][OpsNext]_vars

\* A drain in progress returns to the reactor.
doReadReturns == doReadLoop /\ pc' = "done"

\* The reactor gets to run every zero-delay call: a call that has been made
\* returns, a drain in progress returns, and a pending delayed call is run.
FairSpec ==
    /\ Spec
    /\ WF_vars(returnToReactor)
    /\ SF_vars(doReadReturns)
    /\ SF_vars(connectionLost)

\* The interpreter goes on executing a drain that is in progress; nothing
\* is assumed of the datagrams that arrive.
DrainSpec == Spec /\ WF_vars(doReadLoop)

\* A MulticastPort with listenMultiple off or on, on a platform whose
\* socket module does or does not define SO_REUSEPORT.
MulticastInit == ConstructClass({"posix"}, {"False", "True"}, BOOLEAN)

\* The lifecycle and connect of a MulticastPort.  The reuse options are set
\* in startListening only, and the read and write paths are Port's.
MulticastNext ==
    \/ startListening
    \/ stopListening
    \/ connectionLost
    \/ connect
    \/ returnToReactor

MulticastSpec == MulticastInit /\ [][MulticastNext]_vars

(* ------------------------------ lifecycle ----------------------------- *)

\* The lifecycle state the Port's fields stand for: bound is self.connected,
\* stopping is a teardown waiting in the reactor.
State ==
    IF connected = 1
    THEN IF delayedCalls > 0 THEN "stopping" ELSE "listening"
    ELSE IF teardowns > 0 THEN "closed" ELSE "unbound"

(* ------------------------------- claims ------------------------------- *)

\* C1: however often stopListening is called on a started Port, teardown
\* runs once per start, the protocol is stopped once per start, a second
\* stopListening schedules no further teardown, and no returned Deferred is
\* dropped unresolved.
C1_TeardownExactlyOnce ==
    /\ teardowns + delayedCalls <= starts
    /\ doStops <= starts
    /\ \A h \in 1..stops : h \in resolved \/ h = d

\* C2: stopListening (called by the application or from datagramReceived)
\* only removes the Port from the readers and schedules connectionLost;
\* the protocol's doStop, the socket's close and the Deferred's firing
\* happen only in a delayed call the reactor runs.
C2_TeardownOnlyFromReactor ==
    [][/\ (fx'.op = "stopListening" \/ fx'.reentrant = "stopListening") =>
            /\ doStops' = doStops
            /\ teardowns' = teardowns
            /\ socket' = socket
            /\ resolved' = resolved
            /\ "doStop" \notin Range(fx'.callbacks)
            /\ "close" \notin Range(fx'.oscalls)
            /\ readers' = FALSE
            /\ delayedCalls' =
                   IF connected = 1 THEN delayedCalls + 1 ELSE delayedCalls
       /\ (\/ doStops' # doStops
           \/ teardowns' # teardowns
           \/ resolved' # resolved
           \/ socket = "open" /\ socket' = None) =>
            /\ fx'.op = "connectionLost"
            /\ pc = "idle"
            /\ delayedCalls > 0
            /\ delayedCalls' = delayedCalls - 1]_vars

\* C2's case: stopListening has returned its Deferred and nothing of the
\* teardown has happened.
C2_Witness ==
    /\ pc = "done"
    /\ fx.op = "stopListening"
    /\ fx.handle # 0
    /\ delayedCalls = 1
    /\ doStops = 0
    /\ socket = "open"
    /\ fx.handle \notin resolved

\* C3: once stopListening has been called on a listening Port, no datagram
\* is dispatched to datagramReceived.
C3_NoDispatchAfterStop ==
    [][stopRequested => "datagramReceived" \notin Range(fx'.callbacks)]_vars

\* C4: every Deferred stopListening returns is eventually fired.
C4_HandleEventuallyResolved ==
    \A h \in 1..MaxStops : [](stops >= h => <>(h \in resolved))

\* C5: the lifecycle state only moves unbound -> listening -> stopping ->
\* closed.
C5_LifecycleOrder ==
    [][State' # State =>
          <<State, State'>> \in {<<"unbound", "listening">>,
                                 <<"listening", "stopping">>,
                                 <<"stopping", "closed">>}]_vars

\* C6: stopListening on a Port that is not bound returns None, schedules
\* nothing, stops nothing and changes nothing of the Port.
C6_StopWhenNotListeningIsNoOp ==
    [][(fx'.op = "stopListening" /\ connected = 0) =>
          /\ fx'.handle = 0
          /\ fx'.callbacks = <<>>
          /\ fx'.oscalls = <<>>
          /\ delayedCalls' = delayedCalls
          /\ readers' = readers
          /\ doStops' = doStops
          /\ teardowns' = teardowns
          /\ resolved' = resolved
          /\ portVars' = portVars
          /\ State' = State]_vars

\* C6's case: stopListening has returned None on a closed Port.
C6_Witness ==
    /\ pc = "done"
    /\ fx.op = "stopListening"
    /\ fx.handle = 0
    /\ State = "closed"

\* C7: a doRead invocation receives only while the bytes it has read are
\* below maxThroughput, so what it dispatches is the shortest prefix that
\* reaches the budget and is less than maxThroughput + maxPacketSize bytes;
\* once the budget is reached it returns without another receive and
\* leaves the waiting datagrams in the socket.
C7_DrainBudget ==
    /\ [](fx.op = "doRead" => read < maxThroughput + maxPacketSize)
    /\ [](fx.op = "doRead" /\ fx.result = "budget" => read >= maxThroughput)
    /\ [][(fx'.op = "doRead" /\ "recvfrom" \in Range(fx'.oscalls)) =>
             read < maxThroughput]_vars
    /\ [][(fx'.op = "doRead" /\ fx'.result = "dispatched") =>
             /\ rxQueue' = Tail(rxQueue)
             /\ read' = read + Min(Head(rxQueue), maxPacketSize)]_vars
    /\ [][(pc = "doRead" /\ read >= maxThroughput /\ fx'.op = "doRead") =>
             /\ pc' = "done"
             /\ fx'.result = "budget"
             /\ fx'.oscalls = <<>>
             /\ fx'.callbacks = <<>>
             /\ rxQueue' = rxQueue]_vars

\* C7's case: a drain has ended on its budget with datagrams still waiting.
C7_Witness ==
    /\ pc = "done"
    /\ fx.op = "doRead"
    /\ fx.result = "budget"
    /\ maxThroughput = MaxThroughput
    /\ read >= MaxThroughput
    /\ rxQueue # <<>>

\* C8: once a peer is configured it never changes, and every later connect
\* fails as already connected without an OS-level connect.
C8_ConnectAtMostOnce ==
    [][/\ _connectedAddr # NoAddr => _connectedAddr' = _connectedAddr
       /\ (fx'.op = "connect" /\ _connectedAddr # NoAddr) =>
            /\ fx'.result = "RuntimeError"
            /\ fx'.oscalls = <<>>
            /\ osPeer' = osPeer]_vars

\* C8's case: a connect to another peer has failed on a connected Port.
C8_Witness ==
    /\ pc = "done"
    /\ fx.op = "connect"
    /\ fx.result = "RuntimeError"
    /\ _connectedAddr # NoAddr
    /\ fx.addr # _connectedAddr
    /\ osPeer = _connectedAddr

\* C9 as claimed: on an IPv6 Port that holds a socket, connected or not, a
\* write to an IPv4 literal or the broadcast sentinel fails with
\* InvalidAddressError, and a write to an IPv6 literal succeeds unless the
\* OS reports an error.
C9_Ipv6PortWriteAnyMode ==
    (fx.op = "write" /\ addressFamily = AF_INET6 /\ socket = "open"
        /\ fx.addr # NoAddr) =>
        /\ (isIPAddress(fx.addr[1]) \/ fx.addr[1] = "<broadcast>") =>
              fx.result = "InvalidAddressError"
        /\ (isIPv6Address(fx.addr[1]) /\ Range(fx.os) \subseteq {OK, EINTR}) =>
              fx.result = "sent"

\* C9 amended: the same of an IPv6 Port in unconnected mode; the rejection
\* comes before any OS call, the success needs the Port to hold a socket.
C9_Ipv6PortWriteUnconnected ==
    (fx.op = "write" /\ addressFamily = AF_INET6 /\ _connectedAddr = NoAddr
        /\ fx.addr # NoAddr) =>
        /\ (isIPAddress(fx.addr[1]) \/ fx.addr[1] = "<broadcast>") =>
              /\ fx.result = "InvalidAddressError"
              /\ fx.oscalls = <<>>
        /\ (isIPv6Address(fx.addr[1]) /\ socket = "open"
                /\ Range(fx.os) \subseteq {OK, EINTR}) =>
              /\ fx.result = "sent"
              /\ Range(fx.dests) = {fx.addr}

\* C9's case: an unconnected IPv6 Port has rejected a write to 1.2.3.4.
C9_Witness ==
    /\ pc = "done"
    /\ fx.op = "write"
    /\ addressFamily = AF_INET6
    /\ _connectedAddr = NoAddr
    /\ socket = "open"
    /\ fx.addr = <<"1.2.3.4", PeerPort>>
    /\ fx.result = "InvalidAddressError"

\* C10: an unconnected write to a host that is no IP literal and not the
\* broadcast sentinel, to an IPv4 literal or the sentinel on an IPv6 Port,
\* or to an IPv6 literal on an IPv4 Port fails with InvalidAddressError
\* and makes no OS call.
C10_UnconnectedWriteValidatesFirst ==
    (fx.op = "write" /\ _connectedAddr = NoAddr /\ fx.addr # NoAddr) =>
        LET host == fx.addr[1]
            v4 == isIPAddress(host)
            v6 == isIPv6Address(host)
            bc == host = "<broadcast>"
            rejected == \/ ~v4 /\ ~v6 /\ ~bc
                        \/ (v4 \/ bc) /\ addressFamily = AF_INET6
                        \/ v6 /\ addressFamily = AF_INET
        IN /\ rejected =>
                /\ fx.result = "InvalidAddressError"
                /\ fx.oscalls = <<>>
                /\ fx.callbacks = <<>>
           /\ fx.oscalls # <<>> => ~rejected

\* C10's case: an unconnected IPv4 Port with a socket has rejected a
\* hostname.
C10_Witness ==
    /\ pc = "done"
    /\ fx.op = "write"
    /\ addressFamily = AF_INET
    /\ _connectedAddr = NoAddr
    /\ socket = "open"
    /\ fx.addr = <<"example.com", PeerPort>>
    /\ fx.result = "InvalidAddressError"
    /\ fx.oscalls = <<>>

\* C11: when creating or binding the socket fails with an OS error,
\* startListening raises CannotListenError with the interface, the port
\* and that OS error, and only then; the Port stays as it was: no port
\* number, no makeConnection, not in the reactor's readers.
C11_BindFailureLeavesPortUnbound ==
    [][fx'.op = "startListening" =>
          /\ fx'.result = "CannotListenError" <=> fx'.os # <<>>
          /\ fx'.result = "CannotListenError" =>
                /\ fx'.addr = <<interface, ListenPort>>
                /\ fx'.os = <<EBADF>>
                /\ "makeConnection" \notin Range(fx'.callbacks)
                /\ portVars' = portVars
                /\ State' = State
                /\ _realPortNumber' = None
                /\ connected' = 0
                /\ readers' = FALSE]_vars

\* C11's case: bind has failed on the socket a fresh Port created.
C11_Witness ==
    /\ pc = "done"
    /\ fx.op = "startListening"
    /\ fx.result = "CannotListenError"
    /\ fx.oscalls = <<"socket", "bind">>
    /\ State = "unbound"
    /\ _realPortNumber = None
    /\ ~readers

\* C12: when datagramReceived raises, doRead logs the failure and goes on:
\* the datagram counts as received, nothing of the Port or the reactor
\* changes, and the next waiting datagram can be received and dispatched
\* in the same invocation.
C12_CallbackFailureIsIsolated ==
    /\ [][(fx'.op = "doRead" /\ fx'.reentrant = "raises") =>
             /\ fx'.result = "dispatched"
             /\ fx'.log = <<"err">>
             /\ pc' = "doRead"
             /\ rxQueue' = Tail(rxQueue)
             /\ read' = read + Min(Head(rxQueue), maxPacketSize)
             /\ portVars' = portVars
             /\ reactorVars' = reactorVars
             /\ State' = State]_vars
    /\ [][(pc = "doRead" /\ fx.reentrant = "raises" /\ fx'.op = "doRead") =>
             /\ read >= maxThroughput => fx'.result = "budget"
             /\ (read < maxThroughput /\ fx'.os = <<>>) =>
                   /\ fx'.result = "dispatched"
                   /\ rxQueue' = Tail(rxQueue)]_vars
    /\ [](pc = "doRead" /\ fx.reentrant = "raises" /\ read < maxThroughput
            /\ rxQueue # <<>> =>
                ENABLED (doReadLoop /\ fx'.result = "dispatched"))

\* C12's case: datagramReceived has raised and the drain is still running
\* with budget left and a datagram waiting.
C12_Witness ==
    /\ pc = "doRead"
    /\ fx.op = "doRead"
    /\ fx.reentrant = "raises"
    /\ read < maxThroughput
    /\ rxQueue # <<>>
    /\ State = "listening"

\* C13: a write whose send the OS refuses (ECONNREFUSED) returns normally;
\* in connected mode the protocol's connectionRefused is invoked once, in
\* unconnected mode no callback is invoked.
C13_RefusedWriteReturns ==
    (fx.op = "write" /\ fx.os # <<>> /\ fx.os[Len(fx.os)] = ECONNREFUSED) =>
        /\ fx.result = "returned"
        /\ fx.callbacks = IF _connectedAddr # NoAddr
                          THEN <<"connectionRefused">> ELSE <<>>

\* C13's case: a connected write was interrupted, retried and refused.
C13_Witness ==
    /\ pc = "done"
    /\ fx.op = "write"
    /\ _connectedAddr # NoAddr
    /\ fx.os = <<EINTR, ECONNREFUSED>>
    /\ fx.result = "returned"
    /\ fx.callbacks = <<"connectionRefused">>

\* C14: in either mode a write whose send fails with EMSGSIZE raises
\* MessageLengthError, a write whose send fails with an errno other than
\* EINTR, EMSGSIZE and ECONNREFUSED raises that OSError, and neither
\* invokes a protocol callback.
C14_WriteErrorsReachCaller ==
    (fx.op = "write" /\ fx.os # <<>>) =>
        LET no == fx.os[Len(fx.os)] IN
        /\ no = EMSGSIZE =>
              /\ fx.result = "MessageLengthError"
              /\ fx.callbacks = <<>>
        /\ no \notin {OK, EINTR, EMSGSIZE, ECONNREFUSED} =>
              /\ fx.result = "OSError"
              /\ fx.callbacks = <<>>

\* C14's case: a connected write has raised MessageLengthError.
C14_Witness ==
    /\ pc = "done"
    /\ fx.op = "write"
    /\ _connectedAddr # NoAddr
    /\ fx.os = <<EMSGSIZE>>
    /\ fx.oscalls = <<"send">>
    /\ fx.result = "MessageLengthError"

\* C15: on either platform a recvfrom error whose errno is in neither
\* table is raised out of doRead; what the invocation has received stays
\* received, connectionRefused is not invoked and nothing of the Port or
\* the reactor changes.
C15_FatalReadErrorPropagates ==
    [][(fx'.op = "doRead" /\ fx'.os # <<>>
           /\ fx'.os[1] \notin _sockErrReadIgnore \cup _sockErrReadRefuse) =>
          /\ fx'.result = "OSError"
          /\ pc' = "done"
          /\ fx'.callbacks = <<>>
          /\ rxQueue' = rxQueue
          /\ read' = read
          /\ portVars' = portVars
          /\ reactorVars' = reactorVars
          /\ State' = State]_vars

\* C15's case: a drain that has dispatched a datagram ends on EBADF while
\* the Port is listening.
C15_Witness ==
    /\ pc = "done"
    /\ fx.op = "doRead"
    /\ fx.result = "OSError"
    /\ fx.os = <<EBADF>>
    /\ read > 0
    /\ State = "listening"

\* C16 as claimed: on either platform doRead ignores a recvfrom error that
\* is resource-temporarily-unavailable, interrupted-call, would-block or
\* message-too-long, treats connection-refused, connection-reset,
\* network-reset and timed-out as a refusal, and raises every other one.
C16_ReadClassificationAnyPlatform ==
    (fx.op = "doRead" /\ fx.os # <<>>) =>
        LET no == fx.os[1]
            ignorable == {Errno(EAGAIN), EINTR, EWOULDBLOCK, EMSGSIZE}
            refused == {ECONNREFUSED, ECONNRESET, ENETRESET, ETIMEDOUT}
        IN fx.result = IF no \in ignorable THEN "ignored"
                       ELSE IF no \in refused THEN "refused"
                       ELSE "OSError"

\* C16 amended: on win32 doRead ignores interrupted-call, would-block (the
\* code EAGAIN names there), message-too-long and operation-in-progress
\* and treats connection-refused, connection-reset, network-reset and
\* timed-out as a refusal; on POSIX it ignores EAGAIN, EINTR and
\* EWOULDBLOCK and treats only ECONNREFUSED as a refusal; every other
\* errno is raised.
C16_ReadClassificationPerPlatform ==
    (fx.op = "doRead" /\ fx.os # <<>>) =>
        LET no == fx.os[1]
            ignorable == IF platformType = "win32"
                         THEN {EINTR, EWOULDBLOCK, EMSGSIZE, EINPROGRESS}
                         ELSE {EAGAIN, EINTR, EWOULDBLOCK}
            refused == IF platformType = "win32"
                       THEN {ECONNREFUSED, ECONNRESET, ENETRESET, ETIMEDOUT}
                       ELSE {ECONNREFUSED}
        IN fx.result = IF no \in ignorable THEN "ignored"
                       ELSE IF no \in refused THEN "refused"
                       ELSE "OSError"

\* C16's case: on POSIX a drain has ended on a raised ECONNRESET.
C16_Witness ==
    /\ pc = "done"
    /\ platformType = "posix"
    /\ fx.op = "doRead"
    /\ fx.os = <<ECONNRESET>>
    /\ fx.result = "OSError"

\* C17: the socket is closed by connectionLost only; connectionLost leaves
\* no socket open; a socket that was created and could not be bound is
\* closed; startListening replaces no socket that is still open.
C17_SocketReleasedExactlyOnce ==
    /\ [][("close" \in Range(fx'.oscalls) \/ (socket = "open" /\ socket' = None))
             => (fx'.op = "connectionLost" /\ socket = "open")]_vars
    /\ [][fx'.op = "connectionLost" => socket' = None]_vars
    /\ [][(fx'.op = "startListening" /\ fx'.result = "CannotListenError"
              /\ "socket" \in Range(fx'.oscalls) /\ fx'.oscalls # <<"socket">>)
             => "close" \in Range(fx'.oscalls)]_vars
    /\ [][(fx'.op = "startListening" /\ fx'.result = "returned")
             => socket = None]_vars

\* C18: the port number is known exactly while the Port is listening or
\* stopping; a successful startListening (bind or adoption) sets it, a
\* failed one leaves it unknown, and connectionLost resets it.
C18_PortNumberKnownWhileBound ==
    /\ [](_realPortNumber # None <=> State \in {"listening", "stopping"})
    /\ [][fx'.op = "startListening" =>
             IF fx'.result = "returned"
             THEN _realPortNumber' = "assigned"
             ELSE _realPortNumber' = None]_vars
    /\ [][fx'.op = "connectionLost" => _realPortNumber' = None]_vars

\* C18's case: a Port has adopted a socket and knows its port number.
C18_Witness ==
    /\ pc = "done"
    /\ fx.op = "startListening"
    /\ fx.result = "returned"
    /\ fx.oscalls = <<>>
    /\ _realPortNumber = "assigned"
    /\ State = "listening"

\* C19: construction fails with InvalidAddressError exactly for an
\* interface that is neither an IP literal nor empty; otherwise the
\* address family is IPv6 for an IPv6 literal and IPv4 for an IPv4 literal
\* or the empty string, and no operation changes it or the interface.
C19_AddressFamilyFixedAtConstruction ==
    /\ [](pc = "raised" <=>
             ~(isIPv6Address(interface) \/ isIPAddress(interface)
                 \/ interface = ""))
    /\ [](pc = "raised" =>
             (fx.op = "__init__" /\ fx.result = "InvalidAddressError"))
    /\ [](pc # "raised" =>
             addressFamily = IF isIPv6Address(interface) THEN AF_INET6
                             ELSE AF_INET)
    /\ [][addressFamily' = addressFamily /\ interface' = interface]_vars

\* C19's case: an IPv6 Port that has been started, connected and torn
\* down has made a write.
C19_Witness ==
    /\ pc = "done"
    /\ fx.op = "write"
    /\ interface = "::1"
    /\ addressFamily = AF_INET6
    /\ _connectedAddr # NoAddr
    /\ teardowns > 0

\* The chunks of seq in one datagram, built from the last chunk backwards.
Concat(seq) ==
    LET RECURSIVE upTo(_)
        upTo(n) == IF n = 0 THEN <<>> ELSE upTo(n - 1) \o seq[n]
    IN upTo(Len(seq))

\* C20: writeSequence(seq, addr) does what write of the concatenated chunks
\* to addr does: the same OS calls with the same payload and destination,
\* the same exception, the same protocol callbacks; every datagram it
\* hands to the OS is the whole concatenation.
C20_WriteSequenceIsOneWrite ==
    fx.op = "writeSequence" =>
        LET w == write(Concat(fx.seq), fx.addr, fx.os) IN
        /\ fx.oscalls = w.oscalls
        /\ fx.payloads = w.payloads
        /\ fx.dests = w.dests
        /\ fx.callbacks = w.callbacks
        /\ fx.reason = w.reason
        /\ fx.result = IF w.result \in {"sent", "returned"}
                       THEN "returned" ELSE w.result
        /\ \A i \in DOMAIN fx.payloads : fx.payloads[i] = Concat(fx.seq)
        /\ Len(fx.oscalls) =
               Cardinality({i \in DOMAIN fx.os : fx.os[i] = EINTR})
                 + (IF fx.os = <<>> THEN 0 ELSE 1)

\* C20's case: two chunks have gone out as one datagram, sent again after
\* an interruption.
C20_Witness ==
    /\ pc = "done"
    /\ fx.op = "writeSequence"
    /\ fx.seq = << <<"a">>, <<"b">> >>
    /\ fx.os = <<EINTR, OK>>
    /\ fx.payloads = << <<"a", "b">>, <<"a", "b">> >>
    /\ fx.result = "returned"

\* C21: in connected mode a write to a destination that is neither absent
\* nor the configured peer fails its assertion without an OS call or a
\* callback, and every OS call a connected write makes is a send to the
\* configured peer.
C21_ConnectedWriteOnlyToPeer ==
    (fx.op = "write" /\ _connectedAddr # NoAddr) =>
        /\ fx.addr \notin {NoAddr, _connectedAddr} =>
              /\ fx.result = "AssertionError"
              /\ fx.oscalls = <<>>
              /\ fx.callbacks = <<>>
        /\ fx.result = "AssertionError" =>
              fx.addr \notin {NoAddr, _connectedAddr}
        /\ \A i \in DOMAIN fx.oscalls :
              /\ fx.oscalls[i] = "send"
              /\ fx.dests[i] = _connectedAddr

\* C21's case: a Port connected at the OS level has refused a write to
\* another address.
C21_Witness ==
    /\ pc = "done"
    /\ fx.op = "write"
    /\ _connectedAddr # NoAddr
    /\ osPeer = _connectedAddr
    /\ socket = "open"
    /\ fx.addr # NoAddr
    /\ fx.addr # _connectedAddr
    /\ fx.result = "AssertionError"

\* C22: a write, whatever it returns or raises, changes no attribute of
\* the Port and nothing of the reactor: lifecycle state, configured peer,
\* port number, address family and reader registration stay as they were.
C22_WriteChangesNothing ==
    [][fx'.op = "write" =>
          /\ State' = State
          /\ _connectedAddr' = _connectedAddr
          /\ _realPortNumber' = _realPortNumber
          /\ addressFamily' = addressFamily
          /\ readers' = readers
          /\ portVars' = portVars
          /\ reactorVars' = reactorVars]_vars

\* C22's case: a write has raised OSError on a listening, connected Port
\* that is still in the readers.
C22_Witness ==
    /\ pc = "done"
    /\ fx.op = "write"
    /\ fx.result = "OSError"
    /\ State = "listening"
    /\ _connectedAddr # NoAddr
    /\ readers

\* C23: after a receive that returned an empty datagram the doRead
\* invocation makes no further receive.
C23_EmptyDatagramEndsDrain ==
    [][(pc = "doRead" /\ fx.op = "doRead" /\ fx.result = "dispatched"
           /\ fx.received = <<0>> /\ fx'.op = "doRead") =>
          "recvfrom" \notin Range(fx'.oscalls)]_vars

\* C24: every doRead invocation returns, whatever arrives at the socket.
C24_DrainTerminates ==
    (pc = "doRead") ~> (pc # "doRead")

\* C25: on either platform a recvfrom error in the ignorable table ends
\* the doRead invocation at once: doRead returns, no callback is invoked,
\* and the Port, its reader registration and the waiting datagrams are as
\* they were.
C25_IgnorableReadErrorEndsDrain ==
    [][(fx'.op = "doRead" /\ fx'.os # <<>>
           /\ fx'.os[1] \in _sockErrReadIgnore) =>
          /\ fx'.result = "ignored"
          /\ fx'.oscalls = <<"recvfrom">>
          /\ pc' = "done"
          /\ fx'.callbacks = <<>>
          /\ rxQueue' = rxQueue
          /\ read' = read
          /\ portVars' = portVars
          /\ reactorVars' = reactorVars
          /\ State' = State]_vars

\* C25's case: a drain of a listening Port that has dispatched a datagram
\* has ended on EWOULDBLOCK, and the Port is still in the readers.
C25_Witness ==
    /\ pc = "done"
    /\ fx.op = "doRead"
    /\ fx.result = "ignored"
    /\ fx.os = <<EWOULDBLOCK>>
    /\ read > 0
    /\ State = "listening"
    /\ readers

\* C26: on either platform a recvfrom error in the refused table ends the
\* doRead invocation without an exception; connectionRefused is invoked
\* once when a peer is configured and no callback is invoked otherwise;
\* nothing of the Port or the reactor changes.
C26_RefusedReadErrorEndsDrain ==
    [][(fx'.op = "doRead" /\ fx'.os # <<>>
           /\ fx'.os[1] \in _sockErrReadRefuse) =>
          /\ fx'.result = "refused"
          /\ fx'.oscalls = <<"recvfrom">>
          /\ pc' = "done"
          /\ fx'.callbacks = IF _connectedAddr # NoAddr
                             THEN <<"connectionRefused">> ELSE <<>>
          /\ rxQueue' = rxQueue
          /\ read' = read
          /\ portVars' = portVars
          /\ reactorVars' = reactorVars]_vars

\* C26's case: on win32 a drain of a Port with a configured peer has ended
\* on ECONNRESET with one connectionRefused.
C26_Witness ==
    /\ pc = "done"
    /\ platformType = "win32"
    /\ fx.op = "doRead"
    /\ fx.os = <<ECONNRESET>>
    /\ fx.result = "refused"
    /\ _connectedAddr # NoAddr
    /\ fx.callbacks = <<"connectionRefused">>

\* C27: every successful receive of a drain takes the first waiting
\* datagram and gives exactly that datagram to datagramReceived, once,
\* before the loop goes on; a receive that fails dispatches nothing and
\* takes nothing from the socket.
C27_DispatchInReceiveOrder ==
    /\ [][(fx'.op = "doRead" /\ "recvfrom" \in Range(fx'.oscalls)
              /\ fx'.os = <<>>) =>
             /\ rxQueue # <<>>
             /\ rxQueue' = Tail(rxQueue)
             /\ fx'.oscalls = <<"recvfrom">>
             /\ fx'.received = <<Min(Head(rxQueue), maxPacketSize)>>
             /\ fx'.args = fx'.received
             /\ fx'.callbacks = <<"datagramReceived">>]_vars
    /\ [][(fx'.op = "doRead" /\ fx'.os # <<>>) =>
             /\ fx'.received = <<>>
             /\ fx'.args = <<>>
             /\ "datagramReceived" \notin Range(fx'.callbacks)
             /\ rxQueue' = rxQueue]_vars
    /\ [][(fx'.op = "doRead" /\ fx'.oscalls = <<>>) =>
             /\ fx'.args = <<>>
             /\ fx'.callbacks = <<>>
             /\ rxQueue' = rxQueue]_vars

\* C27's case: a drain has dispatched an empty datagram after another
\* datagram, with a third one waiting.
C27_Witness ==
    /\ pc = "doRead"
    /\ fx.op = "doRead"
    /\ fx.received = <<0>>
    /\ fx.args = <<0>>
    /\ read > 0
    /\ rxQueue # <<>>

\* C28: a write whose sends were interrupted n times has made n + 1 OS
\* sends, all of the same datagram to the same destination, and ends as a
\* write does whose first send has the outcome of the last one: the same
\* result and the same callbacks.
C28_InterruptedWriteRetries ==
    (fx.op = "write" /\ fx.os # <<>>) =>
        LET n == Len(fx.os) - 1
            last == fx.os[Len(fx.os)]
            dest == IF _connectedAddr # NoAddr THEN _connectedAddr
                    ELSE fx.addr
            single == write(fx.seq[1], fx.addr, <<last>>)
        IN /\ \A i \in 1..n : fx.os[i] = EINTR
           /\ last # EINTR
           /\ Len(fx.oscalls) = n + 1
           /\ \A i \in DOMAIN fx.oscalls :
                 /\ fx.oscalls[i] = fx.oscalls[1]
                 /\ fx.payloads[i] = fx.seq[1]
                 /\ fx.dests[i] = dest
           /\ fx.result = single.result
           /\ fx.reason = single.reason
           /\ fx.callbacks = single.callbacks

\* C28's case: an unconnected write was interrupted and then sent.
C28_Witness ==
    /\ pc = "done"
    /\ fx.op = "write"
    /\ _connectedAddr = NoAddr
    /\ fx.os = <<EINTR, OK>>
    /\ fx.seq = << <<"a", "b">> >>
    /\ fx.payloads = << <<"a", "b">>, <<"a", "b">> >>
    /\ fx.result = "sent"

\* The place of statement x in the sequence of statements st.
Pos(st, x) == CHOOSE i \in DOMAIN st : st[i] = x

\* C29: a successful startListening records the port number, marks the
\* Port connected, calls makeConnection and then startReading, in this
\* order; no datagramReceived and no connectionRefused is invoked on a
\* Port that never made a successful startListening.
C29_StartOrder ==
    /\ [][(fx'.op = "startListening" /\ fx'.result = "returned") =>
             LET st == fx'.steps IN
             /\ {"_realPortNumber", "connected", "makeConnection",
                  "startReading"} \subseteq Range(st)
             /\ Pos(st, "_realPortNumber") < Pos(st, "connected")
             /\ Pos(st, "connected") < Pos(st, "makeConnection")
             /\ Pos(st, "makeConnection") < Pos(st, "startReading")
             /\ _realPortNumber' = "assigned"
             /\ connected' = 1
             /\ fx'.callbacks = <<"makeConnection">>
             /\ readers' = TRUE]_vars
    /\ [][("datagramReceived" \in Range(fx'.callbacks)
              \/ "connectionRefused" \in Range(fx'.callbacks)) =>
             starts >= 1]_vars

\* C29's case: the first startListening of a Port has returned.
C29_Witness ==
    /\ pc = "done"
    /\ fx.op = "startListening"
    /\ fx.result = "returned"
    /\ starts = 1
    /\ _realPortNumber = "assigned"
    /\ connected = 1
    /\ readers

\* C30: connectionLost resets the port number and maxThroughput, then
\* stops the protocol, then closes the socket, then fires the Deferred;
\* a Deferred fires only in a connectionLost that has stopped the protocol
\* and closed the socket before.
C30_TeardownOrder ==
    /\ [][fx'.op = "connectionLost" =>
             LET st == fx'.steps IN
             /\ st[1] = "_realPortNumber"
             /\ st[2] = "maxThroughput"
             /\ "doStop" \in Range(st)
             /\ Pos(st, "maxThroughput") < Pos(st, "doStop")
             /\ "close" \in Range(st) =>
                   Pos(st, "doStop") < Pos(st, "close")
             /\ "callback" \in Range(st) =>
                   /\ "close" \in Range(st)
                   /\ Pos(st, "close") < Pos(st, "callback")
             /\ _realPortNumber' = None
             /\ maxThroughput' = -1
             /\ "doStop" \in Range(fx'.callbacks)
             /\ "close" \in Range(st) <=> "close" \in Range(fx'.oscalls)
             /\ "close" \in Range(st) <=> (socket = "open" /\ socket' = None)
             /\ "callback" \in Range(st) <=> resolved' # resolved]_vars
    /\ [][resolved' # resolved =>
             /\ fx'.op = "connectionLost"
             /\ "doStop" \in Range(fx'.callbacks)
             /\ "close" \in Range(fx'.oscalls)
             /\ socket' = None
             /\ doStops' >= 1]_vars

\* C30's case: a connectionLost has stopped the protocol, closed the
\* socket and fired the Deferred of stopListening.
C30_Witness ==
    /\ pc = "done"
    /\ fx.op = "connectionLost"
    /\ fx.handle # 0
    /\ fx.handle \in resolved
    /\ "callback" \in Range(fx.steps)
    /\ socket = None
    /\ doStops >= 1

\* C31: on a Port with no peer, connect with a host that is no IPv4 and no
\* IPv6 literal raises InvalidAddressError with no OS call and leaves the
\* Port and the reactor as they were; connect with a literal on a Port
\* with no peer is never refused as already connected or as invalid, and
\* marks the peer.
C31_InvalidHostConnectRejected ==
    /\ [][(fx'.op = "connect" /\ _connectedAddr = NoAddr
              /\ ~isIPAddress(fx'.addr[1])
              /\ ~isIPv6Address(fx'.addr[1])) =>
             /\ fx'.result = "InvalidAddressError"
             /\ fx'.oscalls = <<>>
             /\ _connectedAddr' = NoAddr
             /\ portVars' = portVars
             /\ reactorVars' = reactorVars]_vars
    /\ [][(fx'.op = "connect" /\ _connectedAddr = NoAddr
              /\ (isIPAddress(fx'.addr[1]) \/ isIPv6Address(fx'.addr[1]))) =>
             /\ fx'.result \notin {"RuntimeError", "InvalidAddressError"}
             /\ _connectedAddr' = fx'.addr]_vars

\* C31's case: connect with a hostname has failed on a listening Port,
\* which has no peer.
C31_Witness ==
    /\ pc = "done"
    /\ fx.op = "connect"
    /\ fx.addr = <<"example.com", PeerPort>>
    /\ fx.result = "InvalidAddressError"
    /\ _connectedAddr = NoAddr
    /\ socket = "open"

\* The OS calls of a startListening that set a reuse option.
ReuseCalls(oscalls) ==
    {i \in DOMAIN oscalls : oscalls[i] \in {"SO_REUSEADDR", "SO_REUSEPORT"}}

\* C32: a MulticastPort that creates its socket with listenMultiple on
\* sets SO_REUSEADDR after socket() and then, where the socket module
\* defines it, SO_REUSEPORT; ENOPROTOOPT from the SO_REUSEPORT call is
\* passed over and the socket goes on to bind; every other failure of the
\* two calls ends startListening with CannotListenError carrying that
\* errno, with no bind and the Port unchanged; with listenMultiple off no
\* reuse option is set.
C32_ReuseOptions ==
    [][(fx'.op = "startListening" /\ _preexistingSocket = None) =>
         LET oc == fx'.oscalls
             opts == fx'.opts
         IN
         /\ listenMultiple = "False" =>
               /\ ReuseCalls(oc) = {}
               /\ opts = <<>>
         /\ (listenMultiple = "True" /\ Len(oc) > 1) =>
               /\ oc[1] = "socket"
               /\ oc[2] = "SO_REUSEADDR"
               /\ Len(opts) >= 1
         /\ (listenMultiple = "True" /\ Len(oc) > 1 /\ opts[1] = OK) =>
               IF SO_REUSEPORT
               THEN /\ Len(oc) > 2
                    /\ oc[3] = "SO_REUSEPORT"
                    /\ Len(opts) = 2
                    /\ ReuseCalls(oc) = {2, 3}
               ELSE /\ ReuseCalls(oc) = {2}
                    /\ Len(opts) = 1
         /\ (Len(opts) = 2 /\ opts[2] \in {OK, ENOPROTOOPT}) =>
               /\ oc = <<"socket", "SO_REUSEADDR", "SO_REUSEPORT", "bind">>
               /\ fx'.result = "CannotListenError" => fx'.os = <<EBADF>>
         /\ (opts # <<>> /\ opts[Len(opts)] # OK
               /\ ~(Len(opts) = 2 /\ opts[2] = ENOPROTOOPT)) =>
               /\ fx'.result = "CannotListenError"
               /\ fx'.os = <<opts[Len(opts)]>>
               /\ "bind" \notin Range(oc)
               /\ portVars' = portVars
               /\ reactorVars' = reactorVars
         /\ fx'.result = "returned" =>
               /\ oc[Len(oc)] = "bind"
               /\ \A i \in DOMAIN opts :
                     opts[i] = OK \/ (i = 2 /\ opts[i] = ENOPROTOOPT)]_vars

\* C32's case: a MulticastPort with listenMultiple on has started to
\* listen although SO_REUSEPORT was answered with ENOPROTOOPT.
C32_Witness ==
    /\ pc = "done"
    /\ listenMultiple = "True"
    /\ SO_REUSEPORT
    /\ fx.op = "startListening"
    /\ fx.result = "returned"
    /\ fx.opts = <<OK, ENOPROTOOPT>>
    /\ fx.oscalls = <<"socket", "SO_REUSEADDR", "SO_REUSEPORT", "bind">>
    /\ connected = 1

\* C33: a connect that fails after its tests, in the OS-level connect or
\* for want of a socket, leaves the Port marked with the peer it was
\* given; the mark is never taken back, every connect on a marked Port
\* raises RuntimeError, and every write on a marked Port goes the
\* connected way: no InvalidAddressError, and send as its only OS call.
C33_PeerMarkedBeforeConnect ==
    /\ [][(fx'.op = "connect"
              /\ fx'.result \in {"OSError", "AttributeError"}) =>
             /\ _connectedAddr = NoAddr
             /\ _connectedAddr' = fx'.addr
             /\ osPeer' = osPeer]_vars
    /\ [][_connectedAddr # NoAddr => _connectedAddr' = _connectedAddr]_vars
    /\ [][(fx'.op = "connect" /\ _connectedAddr # NoAddr) =>
             /\ fx'.result = "RuntimeError"
             /\ fx'.oscalls = <<>>]_vars
    /\ [][(fx'.op = "write" /\ _connectedAddr # NoAddr) =>
             /\ fx'.result # "InvalidAddressError"
             /\ \A i \in DOMAIN fx'.oscalls : fx'.oscalls[i] = "send"
             /\ \A i \in DOMAIN fx'.dests : fx'.dests[i] = _connectedAddr]_vars

\* C33's case: a write with no destination has called send on a Port
\* that is marked with a peer while the OS has connected its socket to
\* nothing.
C33_Witness ==
    /\ pc = "done"
    /\ fx.op = "write"
    /\ fx.addr = NoAddr
    /\ _connectedAddr # NoAddr
    /\ osPeer = NoAddr
    /\ starts = 1
    /\ fx.oscalls = <<"send">>
    /\ fx.os = <<EDESTADDRREQ>>
    /\ fx.result = "OSError"

\* C34: once connectionLost has run, maxThroughput is -1 in every later
\* state, a new startListening included, and every drain of doRead ends
\* at its first test of the budget: no recvfrom, no callback, and the
\* waiting datagrams stay in the socket.
C34_BudgetStaysDisabled ==
    /\ [][teardowns' > 0 => maxThroughput' = -1]_vars
    /\ [][(teardowns > 0 /\ fx'.op = "doRead"
              /\ fx'.result # "called") =>
             /\ fx'.result = "budget"
             /\ fx'.oscalls = <<>>
             /\ fx'.callbacks = <<>>
             /\ fx'.received = <<>>
             /\ rxQueue' = rxQueue]_vars

\* C34's case: a Port that was torn down and started again has ended a
\* drain with a datagram still waiting in its socket.
C34_Witness ==
    /\ pc = "done"
    /\ starts = 2
    /\ teardowns > 0
    /\ connected = 1
    /\ maxThroughput = -1
    /\ fx.op = "doRead"
    /\ fx.result = "budget"
    /\ rxQueue # <<>>
====
